---- MODULE Spec2Model ----
(***************************************************************************)
(* Conway's Game of Life on a hyperdiv page (hdgol.py).                    *)
(*                                                                         *)
(* The page function main() runs on the UI thread, once per user event.    *)
(* "Next Generation" runs next_generation_numpy as a task, "Auto" runs the *)
(* coroutine next_generation_loop as a second task.  Both tasks read and   *)
(* write the global MyState while the UI thread handles further events, so *)
(* every access of a task to MyState is a step of its own here.  A run of  *)
(* main() for one user event is one step.                                  *)
(*                                                                         *)
(* The grid of the source is 20 x 30; the model keeps the code and scales  *)
(* ROWS and COLS down.                                                     *)
(***************************************************************************)
EXTENDS Integers, Sequences, FiniteSets, TLC

\* Grid dimensions (hdgol.py sets 20 and 30).
ROWS == 3
COLS == 3
\* The generation counter is capped so that the state space is finite.
MaxGen == 3
\* The user toggles the cells (i, i) with i <= MaxToggleIndex.
MaxToggleIndex == 1
\* The user clicks or toggles at most MaxEvents times.
MaxEvents == 3

VARIABLES
    did_setup,    \* MyState.did_setup
    stopped,      \* MyState.stopped
    generation,   \* MyState.generation
    checkboxes,   \* MyState.checkboxes: (row, col) -> [checked]
    task,         \* the "Next Generation" task and the locals of its function
    auto_task,    \* the "Auto" task and the locals of its coroutine
    ret,          \* outcome of the last direct call of a transition function
    edited,       \* history: cells toggled since the last write-back
    events,       \* number of user events handled so far
    missed,       \* history: per task, cells toggled after the task read them
    seen          \* history: per task, the stores its read loop ran across

vars == <<did_setup, stopped, generation, checkboxes, task, auto_task,
          ret, edited, missed, events, seen>>

----------------------------------------------------------------------------
\* Data

Keys == (0 .. ROWS - 1) \X (0 .. COLS - 1)

NEIGHBOR_OFFSETS ==
    << <<-1, -1>>, <<-1, 0>>, <<-1, 1>>,
       <<0, -1>>,             <<0, 1>>,
       <<1, -1>>,  <<1, 0>>,  <<1, 1>> >>

\* dict(): the empty checkbox store
EmptyDict == [k \in {} |-> [checked |-> FALSE]]

\* A fully populated store whose live cells are exactly the set alive.
GridOf(alive) == [k \in Keys |-> [checked |-> (k \in alive)]]

AllGrids == {GridOf(a) : a \in SUBSET Keys}

RECURSIVE SumSeq(_)
SumSeq(s) == IF s = <<>> THEN 0 ELSE Head(s) + SumSeq(Tail(s))

BoolToInt(b) == IF b THEN 1 ELSE 0

----------------------------------------------------------------------------
\* next_generation: the loop over NEIGHBOR_OFFSETS

\* current_state: key -> checked, over the keys the store has
current_state(cb) == [k \in DOMAIN cb |-> cb[k].checked]

\* current_state.get(key, 0) as an int
DictGet(cs, key) == IF key \in DOMAIN cs THEN BoolToInt(cs[key]) ELSE 0

InRange(nr, nc) == 0 <= nr /\ nr < ROWS /\ 0 <= nc /\ nc < COLS

live_neighbors(cs, row, col) ==
    SumSeq([n \in 1 .. Len(NEIGHBOR_OFFSETS) |->
        LET nr == row + NEIGHBOR_OFFSETS[n][1]
            nc == col + NEIGHBOR_OFFSETS[n][2]
        IN  IF InRange(nr, nc)
            THEN DictGet(cs, <<nr, nc>>)
            ELSE 0])

new_state(cs) ==
    [k \in DOMAIN cs |->
        LET n == live_neighbors(cs, k[1], k[2])
        IN  (cs[k] /\ n \in {2, 3}) \/ (~cs[k] /\ n = 3)]

\* The store next_generation assigns: every key of the snapshot, with its
\* cell copied and "checked" replaced.
next_generation(cb) ==
    LET ns == new_state(current_state(cb))
    IN  [k \in DOMAIN ns |-> [cb[k] EXCEPT !.checked = ns[k]]]

\* The live_neighbors values of one call, per key.
next_generation_counts(cb) ==
    [k \in DOMAIN cb |-> live_neighbors(current_state(cb), k[1], k[2])]

----------------------------------------------------------------------------
\* next_generation_numpy: a 3x3 convolution with zero fill

\* Mutant of kernel: the centre is counted too.
kernel_full == << <<1, 1, 1>>, <<1, 1, 1>>, <<1, 1, 1>> >>

kernel == << <<1, 1, 1>>, <<1, 0, 1>>, <<1, 1, 1>> >>

ZeroGrid == [k \in Keys |-> 0]

\* Mutant of Filled: boundary="wrap", the array continued periodically.
FilledWrap(grid, r, c) == grid[<<r % ROWS, c % COLS>>]

\* boundary="fill", fillvalue=0: the array seen with everything outside it 0
Filled(grid, r, c) ==
    IF <<r, c>> \in DOMAIN grid THEN grid[<<r, c>>] ELSE 0

\* convolve2d(grid, kernel, mode="same"): out[r,c] is the sum over the kernel
\* indexes (i,j) of kernel[i][j] * grid[r + 1 - i, c + 1 - j] (0-based i, j).
convolve2d(grid) ==
    [k \in Keys |->
        SumSeq([n \in 1 .. 9 |->
            LET i == (n - 1) \div 3
                j == (n - 1) % 3
            IN  kernel[i + 1][j + 1] * Filled(grid, k[1] + 1 - i, k[2] + 1 - j)])]

\* Mutant of new_grid: the two outcomes of np.where are swapped.
new_grid_swapped(grid, neighbor_count) ==
    [k \in Keys |->
        IF \/ (grid[k] = 1 /\ (neighbor_count[k] = 2 \/ neighbor_count[k] = 3))
           \/ (grid[k] = 0 /\ neighbor_count[k] = 3)
        THEN 0 ELSE 1]

\* Mutant of new_grid: a dead cell is born with 2 neighbours as well.
new_grid_birth2(grid, neighbor_count) ==
    [k \in Keys |->
        IF neighbor_count[k] = 3 \/ neighbor_count[k] = 2 THEN 1 ELSE 0]

\* np.where(...): the rule on the int grid and its neighbour counts
new_grid(grid, neighbor_count) ==
    [k \in Keys |->
        IF \/ (grid[k] = 1 /\ (neighbor_count[k] = 2 \/ neighbor_count[k] = 3))
           \/ (grid[k] = 0 /\ neighbor_count[k] = 3)
        THEN 1 ELSE 0]

\* Steps 2 and 3 of next_generation_numpy on a filled int grid.
numpy_step(grid) == new_grid(grid, convolve2d(grid))

\* Mutant of new_checkboxes: only the live cells are stored.
new_checkboxes_sparse(cb, ng) ==
    [k \in {c \in Keys : ng[c] = 1} |-> [cb[k] EXCEPT !.checked = TRUE]]

\* Step 4: the new store, every cell copied with "checked" replaced.
new_checkboxes(cb, ng) == [k \in Keys |-> [cb[k] EXCEPT !.checked = (ng[k] = 1)]]

----------------------------------------------------------------------------
\* MyState and the two tasks

\* random.random() < 0.5 per cell can produce every grid; the model draws
\* three of them: all dead, column 1 alive, all alive.
Seeds == {GridOf({k \in Keys : k[2] \in cs}) : cs \in {{}, {1}, 0 .. COLS - 1}}

ToggleKeys == {k \in Keys : k[1] = k[2] /\ k[1] <= MaxToggleIndex}

TaskNames == {"task", "auto_task"}

\* A task that has not run, with the locals of its function cleared.
TaskIdle ==
    [pc |-> "idle", idx |-> 0, grid |-> ZeroGrid, new_checkboxes |-> EmptyDict,
     g |-> 0]

\* Positions inside next_generation_numpy, one per access to MyState:
\*   read   - lines 127-130, about to read the cells of row idx
\*   wb     - lines 149-156, about to read the cells again for the copy
\*   assign - line 158, about to assign state.checkboxes
NumpyPcs == {"read", "wb", "assign"}

\* Positions of next_generation_loop: loop (line 166, also the sleep of line
\* 171), the positions of the transition, load and store (line 170).
TickPcs == NumpyPcs \cup {"load", "store"}

running(t) == t.pc \in TickPcs \cup {"loop"}

\* History: no toggle recorded for either task.
NoEdits == [n \in TaskNames |-> {}]

\* History: no store recorded for either task.
NoSeen == [n \in TaskNames |-> {}]

\* The task has already copied cell k into its array.
HasRead(t, k) ==
    \/ t.pc = "read" /\ k[1] < t.idx
    \/ t.pc \in {"wb", "assign"}

\* ret before any direct call.
NoCall == [fn |-> "none", before |-> EmptyDict, counts |-> EmptyDict,
           raised |-> FALSE]

Init ==
    /\ did_setup = FALSE
    /\ stopped = FALSE
    /\ generation = 0
    /\ checkboxes = EmptyDict
    /\ task = TaskIdle
    /\ auto_task = TaskIdle
    /\ ret = NoCall
    /\ edited = {}
    /\ missed = NoEdits
    /\ events = 0
    /\ seen = NoSeen

----------------------------------------------------------------------------
\* next_generation_numpy, step by step, on the locals t of a task

\* Lines 127-130 for row number t.idx, the inner loop taken as one step;
\* after the last row, lines 134-146.  A missing key raises KeyError and the
\* task ends with an error.
ReadRow(t, cb) ==
    IF \E c \in 0 .. COLS - 1 : <<t.idx, c>> \notin DOMAIN cb
    THEN [TaskIdle EXCEPT !.pc = "failed"]
    ELSE LET grid == [k \in Keys |->
                        IF k[1] = t.idx THEN BoolToInt(cb[k].checked)
                        ELSE t.grid[k]]
         IN  IF t.idx + 1 < ROWS
             THEN [t EXCEPT !.idx = t.idx + 1, !.grid = grid]
             ELSE [t EXCEPT !.pc = "wb", !.idx = 0, !.grid = numpy_step(grid)]

\* Lines 149-156: every cell is read again and copied with the new value.
CopyCells(t, cb) ==
    IF DOMAIN cb # Keys
    THEN [TaskIdle EXCEPT !.pc = "failed"]
    ELSE [t EXCEPT !.pc = "assign", !.grid = ZeroGrid,
                   !.new_checkboxes = new_checkboxes(cb, t.grid)]

----------------------------------------------------------------------------
\* main(): one run of the page function on the UI thread

\* Mutant of initialize_grid_data: the grid is filled on every run.
initialize_grid_data_unguarded == Seeds

\* Lines 178-179 with initialize_grid_data: the stores the run can continue
\* with, and the did_setup flag it then has.
initialize_grid_data ==
    IF checkboxes = EmptyDict /\ ~did_setup THEN Seeds ELSE {checkboxes}

DidSetupAfter == IF checkboxes = EmptyDict THEN TRUE ELSE did_setup

Initialized == checkboxes = EmptyDict /\ ~did_setup

\* History: the recorded toggles belong to the grid they were made on.
EditedAfter == IF Initialized THEN {} ELSE edited
MissedAfter == IF Initialized THEN NoEdits ELSE missed

\* History: seen[n] holds the stores that existed while task n has been
\* reading, as long as only toggles changed the store; it is empty otherwise.
SeenAfter == IF Initialized THEN NoSeen ELSE seen

\* A run with no event: only the initialization can change anything.
Render ==
    /\ UNCHANGED events
    /\ \E cb \in initialize_grid_data : checkboxes' = cb
    /\ did_setup' = DidSetupAfter
    /\ edited' = EditedAfter
    /\ missed' = MissedAfter
    /\ UNCHANGED <<stopped, generation, task, auto_task, ret>>
    /\ seen' = SeenAfter

\* Mutant of Toggle: the generation counter is left alone.
ToggleNoCount(k) ==
    /\ events < MaxEvents
    /\ events' = events + 1
    /\ \E cb \in initialize_grid_data :
        /\ DOMAIN cb = Keys
        /\ checkboxes' = [cb EXCEPT ![k] = [cb[k] EXCEPT !.checked = ~cb[k].checked]]
    /\ did_setup' = DidSetupAfter
    /\ edited' = EditedAfter \cup {k}
    /\ missed' = MissedAfter
    /\ UNCHANGED <<stopped, generation, task, auto_task, ret>>
    /\ seen' = [n \in TaskNames |->
                  IF SeenAfter[n] # {} THEN SeenAfter[n] \cup {checkboxes'} ELSE {}]

\* render_grid, lines 63-74: the checkbox of cell k changed, to the opposite
\* of the value the page showed for it.
Toggle(k) ==
    /\ events < MaxEvents
    /\ events' = events + 1
    /\ generation + (IF auto_task.pc \in TickPcs THEN 1 ELSE 0) < MaxGen
    /\ \E cb \in initialize_grid_data :
        /\ DOMAIN cb = Keys
        /\ checkboxes' = [cb EXCEPT ![k] = [cb[k] EXCEPT !.checked = ~cb[k].checked]]
    /\ did_setup' = DidSetupAfter
    /\ generation' = generation + 1
    /\ edited' = EditedAfter \cup {k}
    /\ missed' = [n \in TaskNames |->
                    LET t == IF n = "task" THEN task ELSE auto_task
                    IN  IF HasRead(t, k) THEN MissedAfter[n] \cup {k}
                        ELSE MissedAfter[n]]
    /\ UNCHANGED <<stopped, task, auto_task, ret>>
    /\ seen' = [n \in TaskNames |->
                  IF SeenAfter[n] # {} THEN SeenAfter[n] \cup {checkboxes'} ELSE {}]

\* Lines 197-198: "Next Generation" is enabled while its task is not running.
ClickNext ==
    /\ events < MaxEvents
    /\ events' = events + 1
    /\ ~running(task)
    /\ \E cb \in initialize_grid_data : checkboxes' = cb
    /\ did_setup' = DidSetupAfter
    /\ task' = [TaskIdle EXCEPT !.pc = "read"]
    /\ edited' = EditedAfter
    /\ missed' = [MissedAfter EXCEPT !["task"] = {}]
    /\ UNCHANGED <<stopped, generation, auto_task, ret>>
    /\ seen' = [SeenAfter EXCEPT !["task"] = {checkboxes'}]

\* Mutant of ClickAuto: the button is not disabled while the task runs.
ClickAutoEnabled ==
    /\ events < MaxEvents
    /\ events' = events + 1
    /\ \E cb \in initialize_grid_data : checkboxes' = cb
    /\ did_setup' = DidSetupAfter
    /\ stopped' = FALSE
    /\ auto_task' = [TaskIdle EXCEPT !.pc = "loop"]
    /\ edited' = EditedAfter
    /\ missed' = [MissedAfter EXCEPT !["auto_task"] = {}]
    /\ seen' = SeenAfter
    /\ UNCHANGED <<generation, task, ret>>

\* Lines 199-201: "Auto" is enabled while the auto task is not running.
ClickAuto ==
    /\ events < MaxEvents
    /\ events' = events + 1
    /\ ~running(auto_task)
    /\ \E cb \in initialize_grid_data : checkboxes' = cb
    /\ did_setup' = DidSetupAfter
    /\ stopped' = FALSE
    /\ auto_task' = [TaskIdle EXCEPT !.pc = "loop"]
    /\ edited' = EditedAfter
    /\ missed' = [MissedAfter EXCEPT !["auto_task"] = {}]
    /\ UNCHANGED <<generation, task, ret>>
    /\ seen' = SeenAfter

\* Lines 202-203: "Stop" is enabled while the auto task is running.
ClickStop ==
    /\ events < MaxEvents
    /\ events' = events + 1
    /\ running(auto_task)
    /\ \E cb \in initialize_grid_data : checkboxes' = cb
    /\ did_setup' = DidSetupAfter
    /\ stopped' = TRUE
    /\ edited' = EditedAfter
    /\ missed' = MissedAfter
    /\ UNCHANGED <<generation, task, auto_task, ret>>
    /\ seen' = SeenAfter

\* Lines 204-210: "Reset" is always enabled.
ClickReset ==
    /\ events < MaxEvents
    /\ events' = events + 1
    /\ checkboxes' = EmptyDict
    /\ did_setup' = FALSE
    /\ stopped' = TRUE
    /\ generation' = 0
    /\ edited' = {}
    /\ missed' = NoEdits
    /\ UNCHANGED <<task, auto_task, ret>>
    /\ seen' = NoSeen

----------------------------------------------------------------------------
\* The "Next Generation" task: next_generation_numpy in a worker

TaskRead ==
    /\ UNCHANGED events
    /\ task.pc = "read"
    /\ task' = ReadRow(task, checkboxes)
    /\ missed' = IF task'.pc = "failed" THEN [missed EXCEPT !["task"] = {}]
                 ELSE missed
    /\ UNCHANGED <<did_setup, stopped, generation, checkboxes, auto_task, ret,
                   edited>>
    /\ seen' = IF task'.pc = "read" THEN seen ELSE [seen EXCEPT !["task"] = {}]

TaskCopy ==
    /\ UNCHANGED events
    /\ task.pc = "wb"
    /\ task' = CopyCells(task, checkboxes)
    /\ missed' = IF task'.pc = "failed" THEN [missed EXCEPT !["task"] = {}]
                 ELSE missed
    /\ UNCHANGED <<did_setup, stopped, generation, checkboxes, auto_task, ret,
                   edited>>
    /\ UNCHANGED seen

\* Line 158, then the function returns and the task is done.
TaskAssign ==
    /\ UNCHANGED events
    /\ task.pc = "assign"
    /\ checkboxes' = task.new_checkboxes
    /\ task' = [TaskIdle EXCEPT !.pc = "done"]
    /\ edited' = {}
    /\ missed' = NoEdits
    /\ UNCHANGED <<did_setup, stopped, generation, auto_task, ret>>
    /\ seen' = NoSeen

----------------------------------------------------------------------------
\* The "Auto" task: next_generation_loop

\* Mutant of LoopCheck: the loop also ends after its first generation.
LoopCheckBounded ==
    /\ UNCHANGED events
    /\ auto_task.pc = "loop"
    /\ IF stopped \/ generation >= 1
       THEN auto_task' = [TaskIdle EXCEPT !.pc = "done"]
       ELSE /\ generation < MaxGen
            /\ auto_task' = [TaskIdle EXCEPT !.pc = "read"]
    /\ UNCHANGED <<did_setup, stopped, generation, checkboxes, task, ret,
                   edited, missed>>
    /\ seen' = IF stopped \/ generation >= 1 THEN seen
               ELSE [seen EXCEPT !["auto_task"] = {checkboxes}]

\* Mutant of LoopCheck: the stop flag is not consulted.
LoopCheckNoStop ==
    /\ auto_task.pc = "loop"
    /\ generation < MaxGen
    /\ auto_task' = [TaskIdle EXCEPT !.pc = "read"]
    /\ UNCHANGED <<did_setup, stopped, generation, checkboxes, task, ret,
                   edited, missed, events>>
    /\ seen' = [seen EXCEPT !["auto_task"] = {checkboxes}]

\* Line 166 on entry and on each wake from the sleep of line 171.
LoopCheck ==
    /\ UNCHANGED events
    /\ auto_task.pc = "loop"
    /\ IF stopped
       THEN auto_task' = [TaskIdle EXCEPT !.pc = "done"]
       ELSE /\ generation < MaxGen
            /\ auto_task' = [TaskIdle EXCEPT !.pc = "read"]
    /\ UNCHANGED <<did_setup, stopped, generation, checkboxes, task, ret,
                   edited, missed>>
    /\ seen' = IF stopped THEN seen ELSE [seen EXCEPT !["auto_task"] = {checkboxes}]

LoopRead ==
    /\ UNCHANGED events
    /\ auto_task.pc = "read"
    /\ auto_task' = ReadRow(auto_task, checkboxes)
    /\ missed' = IF auto_task'.pc = "failed"
                 THEN [missed EXCEPT !["auto_task"] = {}] ELSE missed
    /\ UNCHANGED <<did_setup, stopped, generation, checkboxes, task, ret,
                   edited>>
    /\ seen' = IF auto_task'.pc = "read" THEN seen
               ELSE [seen EXCEPT !["auto_task"] = {}]

LoopCopy ==
    /\ UNCHANGED events
    /\ auto_task.pc = "wb"
    /\ auto_task' = CopyCells(auto_task, checkboxes)
    /\ missed' = IF auto_task'.pc = "failed"
                 THEN [missed EXCEPT !["auto_task"] = {}] ELSE missed
    /\ UNCHANGED <<did_setup, stopped, generation, checkboxes, task, ret,
                   edited>>
    /\ UNCHANGED seen

LoopAssign ==
    /\ UNCHANGED events
    /\ auto_task.pc = "assign"
    /\ checkboxes' = auto_task.new_checkboxes
    /\ auto_task' = [TaskIdle EXCEPT !.pc = "load"]
    /\ edited' = {}
    /\ missed' = NoEdits
    /\ UNCHANGED <<did_setup, stopped, generation, task, ret>>
    /\ seen' = NoSeen

\* Line 170, state.generation += 1: the read ...
LoopLoad ==
    /\ UNCHANGED events
    /\ auto_task.pc = "load"
    /\ auto_task' = [auto_task EXCEPT !.pc = "store", !.g = generation]
    /\ UNCHANGED <<did_setup, stopped, generation, checkboxes, task, ret,
                   edited, missed>>
    /\ UNCHANGED seen

\* ... and the write; then line 171 suspends the coroutine.
LoopStore ==
    /\ UNCHANGED events
    /\ auto_task.pc = "store"
    /\ generation' = auto_task.g + 1
    /\ auto_task' = [TaskIdle EXCEPT !.pc = "loop"]
    /\ UNCHANGED <<did_setup, stopped, checkboxes, task, ret, edited, missed>>
    /\ UNCHANGED seen

Next ==
    \/ Render
    \/ \E k \in ToggleKeys : Toggle(k)
    \/ ClickNext
    \/ ClickAuto
    \/ ClickStop
    \/ ClickReset
    \/ TaskRead
    \/ TaskCopy
    \/ TaskAssign
    \/ LoopCheck
    \/ LoopRead
    \/ LoopCopy
    \/ LoopAssign
    \/ LoopLoad
    \/ LoopStore

\* One step of the coroutine next_generation_loop.
LoopStep ==
    LoopCheck \/ LoopRead \/ LoopCopy \/ LoopAssign \/ LoopLoad \/ LoopStore

Spec == Init /\ [][Next]_vars

\* The event loop keeps running the coroutine: it resumes it after every
\* sleep and runs it up to the next one.
SpecFair == Spec /\ WF_vars(LoopStep)

----------------------------------------------------------------------------
\* The two transition functions called directly, one whole call per step, on
\* every store: the empty one and every fully populated one.

InitFn ==
    /\ checkboxes \in AllGrids \cup {EmptyDict}
    /\ did_setup = (checkboxes # EmptyDict)
    /\ stopped = FALSE
    /\ generation = 0
    /\ task = TaskIdle
    /\ auto_task = TaskIdle
    /\ ret = NoCall
    /\ edited = {}
    /\ missed = NoEdits
    /\ events = 0
    /\ seen = NoSeen

\* next_generation(), lines 78-116: it returns True on every store.
CallNextGeneration ==
    /\ checkboxes' = next_generation(checkboxes)
    /\ ret' = [fn |-> "next_generation", before |-> checkboxes,
               counts |-> next_generation_counts(checkboxes), raised |-> FALSE]
    /\ UNCHANGED <<did_setup, stopped, generation, task, auto_task, edited,
                   missed, events>>
    /\ UNCHANGED seen

\* next_generation_numpy(), lines 119-159: line 130 raises KeyError on a
\* store that lacks a key, and nothing has been assigned by then.
CallNextGenerationNumpy ==
    /\ IF DOMAIN checkboxes # Keys
       THEN /\ ret' = [fn |-> "next_generation_numpy", before |-> checkboxes,
                       counts |-> EmptyDict, raised |-> TRUE]
            /\ UNCHANGED checkboxes
       ELSE LET grid == [k \in Keys |-> BoolToInt(checkboxes[k].checked)]
                neighbor_count == convolve2d(grid)
            IN  /\ checkboxes' =
                       new_checkboxes(checkboxes, new_grid(grid, neighbor_count))
                /\ ret' = [fn |-> "next_generation_numpy", before |-> checkboxes,
                           counts |-> neighbor_count, raised |-> FALSE]
    /\ UNCHANGED <<did_setup, stopped, generation, task, auto_task, edited,
                   missed, events>>
    /\ UNCHANGED seen

NextFn == CallNextGeneration \/ CallNextGenerationNumpy

SpecFn == InitFn /\ [][NextFn]_vars

----------------------------------------------------------------------------
\* Properties

TypeOK ==
    /\ did_setup \in BOOLEAN
    /\ stopped \in BOOLEAN
    /\ generation \in 0 .. MaxGen
    /\ checkboxes = EmptyDict \/ DOMAIN checkboxes = Keys

\* The 8 Moore neighbours of k that lie in the grid.
Moore(k) ==
    {n \in Keys : n # k /\ n[1] - k[1] \in {-1, 0, 1} /\ n[2] - k[2] \in {-1, 0, 1}}

\* Live Moore neighbours of k in the store cb.
MooreCount(cb, k) == Cardinality({n \in Moore(k) : cb[n].checked})

\* Conway's rule for cell k of the store cb.
Conway(cb, k) ==
    \/ cb[k].checked /\ MooreCount(cb, k) \in {2, 3}
    \/ ~cb[k].checked /\ MooreCount(cb, k) = 3

\* A direct call has returned from a fully populated store.
Returned == ret.fn # "none" /\ ~ret.raised /\ DOMAIN ret.before = Keys

\* C1: after one call of next_generation or next_generation_numpy on a full
\* grid, each cell is alive iff it was alive with 2 or 3 live Moore neighbours
\* or dead with exactly 3, counted in the grid before the call.
C1_ConwayRule ==
    Returned =>
        /\ DOMAIN checkboxes = Keys
        /\ \A k \in Keys : checkboxes[k].checked = Conway(ret.before, k)

\* C1 witness: a call of next_generation_numpy in which one cell survives,
\* one is born and one dies.
C1_Witness ==
    /\ Returned
    /\ ret.fn = "next_generation_numpy"
    /\ \E k \in Keys : ret.before[k].checked /\ checkboxes[k].checked
    /\ \E k \in Keys : ~ret.before[k].checked /\ checkboxes[k].checked
    /\ \E k \in Keys : ret.before[k].checked /\ ~checkboxes[k].checked

\* The vertical blinker in the top left 3x3 corner and its successor.
BlinkerV == GridOf({k \in Keys : k[2] = 1 /\ k[1] \in 0 .. 2})
BlinkerH == GridOf({k \in Keys : k[1] = 1 /\ k[2] \in 0 .. 2})

AliveOf(cb) == {k \in DOMAIN cb : cb[k].checked}

\* The live cells lie on the last column only / on the last row only.
OnlyLastCol(cb) == AliveOf(cb) # {} /\ \A k \in AliveOf(cb) : k[2] = COLS - 1
OnlyLastRow(cb) == AliveOf(cb) # {} /\ \A k \in AliveOf(cb) : k[1] = ROWS - 1

\* C2: neighbour counts are clipped at the boundary: every count is the
\* number of live in-grid Moore neighbours, the vertical blinker becomes the
\* horizontal one, and live cells on one edge add nothing to the counts of
\* the cells on the opposite edge.
C2_ClippedNoWrap ==
    Returned =>
        /\ \A k \in Keys : ret.counts[k] = MooreCount(ret.before, k)
        /\ ret.before = BlinkerV => checkboxes = BlinkerH
        /\ OnlyLastCol(ret.before) => \A k \in Keys : k[2] = 0 => ret.counts[k] = 0
        /\ OnlyLastRow(ret.before) => \A k \in Keys : k[1] = 0 => ret.counts[k] = 0

\* C2 witness: next_generation_numpy has turned the vertical blinker into the
\* horizontal one.
C2_Witness ==
    /\ Returned
    /\ ret.fn = "next_generation_numpy"
    /\ ret.before = BlinkerV
    /\ checkboxes = BlinkerH

\* A write-back of a transition, by either task.
Assigns(n) == IF n = "task" THEN TaskAssign ELSE LoopAssign

\* C3: a cell the user toggled before a transition read it keeps the value
\* of the toggle through that transition.
C3_ToggleSurvivesTransition ==
    [][\A n \in TaskNames :
        Assigns(n) =>
            \A k \in edited \ missed[n] :
                checkboxes'[k].checked = checkboxes[k].checked]_vars

\* C4: a toggle, a completed manual step and a completed auto-loop tick each
\* raise the generation counter by exactly one.
C4_CounterPlusOne ==
    [][/\ (\E k \in ToggleKeys : Toggle(k)) => generation' = generation + 1
       /\ TaskAssign => generation' = generation + 1
       /\ LoopStore => generation' = generation + 1]_vars

\* C5: while the stop flag is set no step moves the auto-loop into a tick (it
\* can only finish the tick it is in), and the flag stays set as long as the
\* loop is running.
C5_StopBeforeNextTick ==
    [][stopped =>
        /\ auto_task'.pc \in TickPcs => auto_task.pc \in TickPcs
        /\ running(auto_task) => stopped']_vars

\* C5 witness: Auto then Stop were clicked, the loop completed one tick and
\* then ended.
C5_Witness ==
    /\ stopped
    /\ did_setup
    /\ auto_task.pc = "done"
    /\ generation = 1
    /\ events = 2

\* C6: Reset zeroes the counter, clears did_setup and empties the grid from
\* every state, and the old grid stays discarded: as long as did_setup is
\* cleared the store is empty, so that the next run of main() initializes it.
C6_ResetReinitializes ==
    /\ [][ClickReset =>
            generation' = 0 /\ ~did_setup' /\ checkboxes' = EmptyDict]_vars
    /\ [](~did_setup => checkboxes = EmptyDict)

\* C7: the generation counter only decreases by a Reset.
C7_CounterMonotonic ==
    [][generation' >= generation \/ ClickReset]_vars

\* C8: a cell toggled after a transition read it and before the transition
\* writes back keeps the value of the toggle in the grid written back.
C8_ToggleNotLost ==
    [][\A n \in TaskNames :
        Assigns(n) =>
            \A k \in missed[n] :
                checkboxes'[k].checked = checkboxes[k].checked]_vars

\* C9: once the grid is initialized it has exactly the keys of Keys, in every
\* state until Reset.
C9_GridComplete == did_setup => DOMAIN checkboxes = Keys

\* C9 witness: an initialized grid after toggles, a manual step and ticks.
C9_Witness ==
    /\ did_setup
    /\ task.pc = "done"
    /\ generation >= 2
    /\ DOMAIN checkboxes = Keys

\* C10: a transition called on the empty store raises and changes nothing;
\* called on a full grid it does not raise.
C10_UninitializedRaises ==
    ret.fn # "none" =>
        /\ ret.before = EmptyDict => (ret.raised /\ checkboxes = ret.before)
        /\ DOMAIN ret.before = Keys => ~ret.raised

\* C11: the auto-loop has ended, by its break or by an error, only when the
\* stop flag is set: Stop or Reset was requested before.
C11_LoopEndsOnlyStopped == auto_task.pc \in {"done", "failed"} => stopped

\* C11 witness: the loop ended with an error, after a Reset emptied the grid
\* under a tick.
C11_Witness == auto_task.pc = "failed" /\ stopped

\* A run of main() that handles no toggle and no Reset.
PlainRun == Render \/ ClickNext \/ ClickAuto \/ ClickStop

\* C12: once the grid is initialized, a run of main() that handles no toggle
\* and no Reset leaves every cell as it is: the initialization is not
\* repeated.
C12_InitGuarded ==
    [][(did_setup /\ PlainRun) => checkboxes' = checkboxes]_vars

\* C12 witness: two clicks were handled on an initialized grid with live
\* cells, and both tasks have yet to touch it.
C12_Witness ==
    /\ did_setup
    /\ events = 2
    /\ task.pc = "read" /\ task.idx = 0
    /\ auto_task.pc = "loop"
    /\ generation = 0
    /\ AliveOf(checkboxes) # {}

\* C13: a toggle of cell k on a rendered grid flips that cell and leaves every
\* other cell, the stop flag and did_setup as they are; the generation
\* counter rises by one.
C13_ToggleFrame ==
    [][\A k \in ToggleKeys :
        (Toggle(k) /\ checkboxes # EmptyDict) =>
            /\ checkboxes'[k].checked # checkboxes[k].checked
            /\ \A j \in Keys \ {k} : checkboxes'[j] = checkboxes[j]
            /\ stopped' = stopped
            /\ did_setup' = did_setup
            /\ generation' = generation + 1]_vars

\* C13 witness: two different cells were toggled one after the other.
C13_Witness ==
    /\ did_setup
    /\ Cardinality(edited) = 2
    /\ generation = 2
    /\ events = 2

\* C14: a transition of a grid with no live cell, by either function, gives a
\* grid with no live cell; so a dead grid stays dead over any number of
\* transitions.
C14_DeadStaysDead ==
    (Returned /\ AliveOf(ret.before) = {}) =>
        (DOMAIN checkboxes = Keys /\ AliveOf(checkboxes) = {})

\* C14 witness: next_generation_numpy has returned from the dead grid.
C14_Witness ==
    /\ Returned
    /\ ret.fn = "next_generation_numpy"
    /\ AliveOf(ret.before) = {}
    /\ AliveOf(checkboxes) = {}

\* The read loop of task n takes its last step and the new grid is computed.
ReadEnds(n) ==
    IF n = "task" THEN TaskRead /\ task'.pc = "wb"
    ELSE LoopRead /\ auto_task'.pc = "wb"

\* The new grid of task n after that step.
NewGridOf(n) == IF n = "task" THEN task'.grid ELSE auto_task'.grid

\* C15: the new grid a transition computes is Conway's rule applied to one
\* grid that the store actually held while the transition was reading it,
\* also when the user toggles cells during the read.
C15_ConsistentSnapshot ==
    [][\A n \in TaskNames :
        (ReadEnds(n) /\ seen[n] # {}) =>
            \E g \in seen[n] :
                NewGridOf(n) = [k \in Keys |-> BoolToInt(Conway(g, k))]]_vars

\* C16: once the stop flag is set while the auto task is running, the task
\* eventually stops running (the loop has left), and Auto is enabled again.
C16_StopTerminates == (stopped /\ running(auto_task)) ~> ~running(auto_task)

\* C16 witness: Reset was clicked while the loop was running and the loop
\* left by its break.
C16_Witness == stopped /\ ~did_setup /\ auto_task.pc = "done"

\* The store next_generation_numpy assigns when called on the full grid cb.
NumpyResult(cb) ==
    new_checkboxes(cb, numpy_step([k \in Keys |-> BoolToInt(cb[k].checked)]))

\* C17: on every full grid the store one function has assigned is the store
\* the other function computes from the same grid.
C17_SameResult ==
    Returned =>
        /\ ret.fn = "next_generation" => checkboxes = NumpyResult(ret.before)
        /\ ret.fn = "next_generation_numpy" =>
               checkboxes = next_generation(ret.before)

\* C17 witness: next_generation has returned from the grid with every cell
\* alive, where only the corners survive.
C17_Witness ==
    /\ Returned
    /\ ret.fn = "next_generation"
    /\ AliveOf(ret.before) = Keys
    /\ AliveOf(checkboxes) = {0, ROWS - 1} \X {0, COLS - 1}

\* C18: Auto is handled, the auto task is put at the start of its loop from
\* outside the loop, and the stop flag is cleared, only while no loop is
\* running; so there is never a second loop next to a running one and a
\* stopped loop is not revived before it has left.
C18_SingleLoop ==
    [][/\ ClickAuto => ~running(auto_task)
       /\ (auto_task'.pc = "loop" /\ auto_task.pc \notin {"loop", "store"})
            => ~running(auto_task)
       /\ (stopped /\ ~stopped') => ~running(auto_task)]_vars

\* C18 witness: Auto, Stop and Auto again: the second loop has begun its
\* first tick after the first loop made one.
C18_Witness ==
    /\ events = 3
    /\ ~stopped
    /\ auto_task.pc = "read" /\ auto_task.idx = 0
    /\ task.pc = "idle"
    /\ edited = {}
    /\ generation = 1

====
